---- MODULE Spec2Model ----
(***************************************************************************)
(* Catherine natural-language engine (src/catherine-natural-language.js):  *)
(* pattern-based intent classification, slot extraction, the confirmation  *)
(* gate of processMessage and the dispatch to the Google collaborators.    *)
(* The MCP tool servers are modelled after it: the JSON-RPC loop of         *)
(* MCPBaseServer and the startup initialization of the Notion and Google    *)
(* servers (src/mcp).                                                       *)
(*                                                                         *)
(* A text is a sequence of one-character strings, so that the regular      *)
(* expressions of the source are matched character by character.           *)
(* Confidences are written in tenths (0.9 is 9).  Times are minutes on the *)
(* local clock, counted from midnight of day 0.                            *)
(***************************************************************************)
EXTENDS Integers, Sequences, FiniteSets, Bags, TLC

VARIABLES
    initialized,          \* the five API clients are set (initialize returned)
    conversationContext,  \* this.conversationContext : Map userId -> context
    handled,              \* user id of the message handled last
    lastMessage,          \* the text handled (or classified) last
    clock,                \* what new Date() read while it was handled
    lastIntent,           \* the Intent parseIntent returned for it
    result,               \* what processMessage returned for it
    calls,                \* the collaborator operation that handling invoked
    apiCalls,             \* the Google API requests that handling issued
    awaiting,             \* per user: the pendingIntent of the last reply
    prompts,              \* per user: consecutive prompts for one intent
    inflight,             \* the calls of processMessage suspended at an await
    tools,                \* MCPBaseServer: this.tools, the names registered
    lines,                \* the request lines read from standard input
    running,              \* the line callbacks suspended at await tool.handler
    stdout,               \* the response lines written to standard output
    initRuns,             \* the runs of the startup initialization in progress
    databaseId,           \* NotionMCPServer: this.databaseId
    notionCalls,          \* the requests issued to the Notion API
    assignments,          \* how many times this.databaseId was assigned
    env,                  \* GoogleMCPServer: the credentials in process.env
    clients               \* GoogleMCPServer: which API clients are set

\* the state of an MCP server process
serverVars == <<tools, lines, running, stdout, initRuns, databaseId, notionCalls,
                assignments, env, clients>>

vars == <<initialized, conversationContext, handled, lastMessage, clock, lastIntent,
          result, calls, apiCalls, awaiting, prompts, inflight, serverVars>>

-----------------------------------------------------------------------------
(* Bounds *)

MaxWords == 3
MaxMail == 1
MaxPrompts == 3
MaxSlotWords == 3
MaxIntentWords == 2

-----------------------------------------------------------------------------
(* Characters and strings *)

Digits == <<"0", "1", "2", "3", "4", "5", "6", "7", "8", "9">>

IsDigit(c) == \E d \in 1..10 : Digits[d] = c

DigitValue(c) == (CHOOSE d \in 1..10 : Digits[d] = c) - 1

UpperCase == <<"A", "B", "C", "D", "E", "F", "G", "H", "I", "J", "K", "L", "M",
               "N", "O", "P", "Q", "R", "S", "T", "U", "V", "W", "X", "Y", "Z">>

LowerCase == <<"a", "b", "c", "d", "e", "f", "g", "h", "i", "j", "k", "l", "m",
               "n", "o", "p", "q", "r", "s", "t", "u", "v", "w", "x", "y", "z">>

LowerChar(c) ==
    IF \E k \in 1..26 : UpperCase[k] = c
    THEN LowerCase[CHOOSE k \in 1..26 : UpperCase[k] = c]
    ELSE c

\* String.prototype.toLowerCase
toLowerCase(s) == [i \in 1..Len(s) |-> LowerChar(s[i])]

\* the characters \s matches, among those the texts are built from
Whitespace == {" ", "\t", "\n"}

RECURSIVE trimStart(_)
trimStart(s) ==
    IF s # <<>> /\ Head(s) \in Whitespace THEN trimStart(Tail(s)) ELSE s

RECURSIVE trimEnd(_)
trimEnd(s) ==
    IF s # <<>> /\ s[Len(s)] \in Whitespace
    THEN trimEnd(SubSeq(s, 1, Len(s) - 1))
    ELSE s

\* String.prototype.trim
trim(s) == trimEnd(trimStart(s))

\* parseInt of a run of decimal digits
RECURSIVE parseInt(_)
parseInt(ds) ==
    IF ds = <<>> THEN 0
    ELSE 10 * parseInt(SubSeq(ds, 1, Len(ds) - 1)) + DigitValue(ds[Len(ds)])

\* the longest run of digits of s that starts at position i
RECURSIVE digitRun(_, _)
digitRun(s, i) ==
    IF i <= Len(s) /\ IsDigit(s[i]) THEN <<s[i]>> \o digitRun(s, i + 1) ELSE <<>>

-----------------------------------------------------------------------------
(* Regular expressions of the registry: a pattern is a set of alternatives, *)
(* an alternative a sequence of atoms, an atom a literal character or \d+.  *)

DigitRun == "\\d+"

RECURSIVE MatchFrom(_, _, _, _)
MatchFrom(alt, k, s, i) ==
    IF k > Len(alt) THEN TRUE
    ELSE IF alt[k] = DigitRun
         THEN \E n \in 1..(Len(s) - i + 1) :
                  /\ \A j \in i..(i + n - 1) : IsDigit(s[j])
                  /\ MatchFrom(alt, k + 1, s, i + n)
         ELSE /\ i <= Len(s)
              /\ s[i] = alt[k]
              /\ MatchFrom(alt, k + 1, s, i + 1)

\* RegExp.prototype.test: the pattern matches somewhere in s
test(pattern, s) ==
    \E alt \in pattern : \E i \in 1..(Len(s) + 1) : MatchFrom(alt, 1, s, i)

-----------------------------------------------------------------------------
(* The words of the registry, of the stop-word lists and of the suggested  *)
(* answers, each as its sequence of characters; a character outside ASCII  *)
(* is written as its code point, "u30e1".                                  *)

W == [
    meeru |-> <<"u30e1", "u30fc", "u30eb">>,
    jushin |-> <<"u53d7", "u4fe1">>,
    messeeji |-> <<"u30e1", "u30c3", "u30bb", "u30fc", "u30b8">>,
    shinchaku |-> <<"u65b0", "u7740">>,
    saishin |-> <<"u6700", "u65b0">>,
    todoita |-> <<"u5c4a", "u3044", "u305f">>,
    kita |-> <<"u6765", "u305f">>,
    uketotta |-> <<"u53d7", "u3051", "u53d6", "u3063", "u305f">>,
    kakunin |-> <<"u78ba", "u8a8d">>,
    chekku |-> <<"u30c1", "u30a7", "u30c3", "u30af">>,
    mi |-> <<"u898b">>,
    yo |-> <<"u8aad">>,
    shirabe |-> <<"u8abf", "u3079">>,
    nantsuu |-> <<"u4f55", "u901a">>,
    tasuku |-> <<"u30bf", "u30b9", "u30af">>,
    yarukoto |-> <<"u3084", "u308b", "u3053", "u3068">>,
    kadai |-> <<"u8ab2", "u984c">>,
    shigoto |-> <<"u4ed5", "u4e8b">>,
    sagyou |-> <<"u4f5c", "u696d">>,
    shukudai |-> <<"u5bbf", "u984c">>,
    sakusei |-> <<"u4f5c", "u6210">>,
    tsukuru |-> <<"u4f5c", "u308b">>,
    tsuika |-> <<"u8ffd", "u52a0">>,
    touroku |-> <<"u767b", "u9332">>,
    nyuuryoku |-> <<"u5165", "u529b">>,
    kiroku |-> <<"u8a18", "u9332">>,
    kaku |-> <<"u66f8", "u304f">>,
    shite |-> <<"u3057", "u3066">>,
    tanomu |-> <<"u983c", "u3080">>,
    onegai |-> <<"u304a", "u9858", "u3044">>,
    yatte |-> <<"u3084", "u3063", "u3066">>,
    dekiru |-> <<"u3067", "u304d", "u308b">>,
    ichiran |-> <<"u4e00", "u89a7">>,
    risuto |-> <<"u30ea", "u30b9", "u30c8">>,
    mise |-> <<"u898b", "u305b">>,
    hyouji |-> <<"u8868", "u793a">>,
    oshie |-> <<"u6559", "u3048">>,
    shiri |-> <<"u77e5", "u308a">>,
    donna |-> <<"u3069", "u3093", "u306a">>,
    aru |-> <<"u3042", "u308b">>,
    dokyumento |-> <<"u30c9", "u30ad", "u30e5", "u30e1", "u30f3", "u30c8">>,
    bunsho |-> <<"u6587", "u66f8">>,
    shiryou |-> <<"u8cc7", "u6599">>,
    repooto |-> <<"u30ec", "u30dd", "u30fc", "u30c8">>,
    houkokusho |-> <<"u5831", "u544a", "u66f8">>,
    gijiroku |-> <<"u8b70", "u4e8b", "u9332">>,
    memo |-> <<"u30e1", "u30e2">>,
    matome |-> <<"u307e", "u3068", "u3081">>,
    junbi |-> <<"u6e96", "u5099">>,
    youi |-> <<"u7528", "u610f">>,
    supureddoshiito |-> <<"u30b9", "u30d7", "u30ec", "u30c3", "u30c9", "u30b7", "u30fc", "u30c8">>,
    hyou |-> <<"u8868">>,
    shiito |-> <<"u30b7", "u30fc", "u30c8">>,
    ekuseru |-> <<"u30a8", "u30af", "u30bb", "u30eb">>,
    keisansho |-> <<"u8a08", "u7b97", "u66f8">>,
    ichiranhyou |-> <<"u4e00", "u89a7", "u8868">>,
    yotei |-> <<"u4e88", "u5b9a">>,
    ibento |-> <<"u30a4", "u30d9", "u30f3", "u30c8">>,
    kaigi |-> <<"u4f1a", "u8b70">>,
    miitingu |-> <<"u30df", "u30fc", "u30c6", "u30a3", "u30f3", "u30b0">>,
    uchiawase |-> <<"u6253", "u3061", "u5408", "u308f", "u305b">>,
    apo |-> <<"u30a2", "u30dd">>,
    sukejuuru |-> <<"u30b9", "u30b1", "u30b8", "u30e5", "u30fc", "u30eb">>,
    ire |-> <<"u5165", "u308c">>,
    settei |-> <<"u8a2d", "u5b9a">>,
    yoyaku |-> <<"u4e88", "u7d04">>,
    ashita |-> <<"u660e", "u65e5">>,
    raishuu |-> <<"u6765", "u9031">>,
    kondo |-> <<"u4eca", "u5ea6">>,
    atode |-> <<"u5f8c", "u3067">>,
    raigetsu |-> <<"u6765", "u6708">>,
    ji |-> <<"u6642">>,
    karendaa |-> <<"u30ab", "u30ec", "u30f3", "u30c0", "u30fc">>,
    kongo |-> <<"u4eca", "u5f8c">>,
    korekara |-> <<"u3053", "u308c", "u304b", "u3089">>,
    nanika |-> <<"u4f55", "u304b">>,
    nanka |-> <<"u306a", "u3093", "u304b">>,
    chotto |-> <<"u3061", "u3087", "u3063", "u3068">>,
    sukoshi |-> <<"u5c11", "u3057">>,
    tekitouni |-> <<"u9069", "u5f53", "u306b">>,
    yoroshiku |-> <<"u3088", "u308d", "u3057", "u304f">>,
    tetsuda |-> <<"u624b", "u4f1d">>,
    kudasai |-> <<"u304f", "u3060", "u3055", "u3044">>,
    hai |-> <<"u306f", "u3044">>,
    iie |-> <<"u3044", "u3044", "u3048">>,
    taitoru_wo_henkou |-> <<"u30bf", "u30a4", "u30c8", "u30eb", "u3092", "u5909", "u66f4">>,
    kaigi_no_junbi |-> <<"u4f1a", "u8b70", "u306e", "u6e96", "u5099">>,
    repooto_sakusei |-> <<"u30ec", "u30dd", "u30fc", "u30c8", "u4f5c", "u6210">>,
    shiryou_matome |-> <<"u8cc7", "u6599", "u307e", "u3068", "u3081">>,
    sonota_tenyuuryoku |-> <<"u305d", "u306e", "u4ed6", "uff08", "u624b", "u5165", "u529b", "uff09">>,
    kaigi_shiryou |-> <<"u4f1a", "u8b70", "u8cc7", "u6599">>,
    purojekuto_houkokusho |-> <<"u30d7", "u30ed", "u30b8", "u30a7", "u30af", "u30c8", "u5831", "u544a", "u66f8">>,
    tasuku_kanrihyou |-> <<"u30bf", "u30b9", "u30af", "u7ba1", "u7406", "u8868">>,
    uriage_deeta |-> <<"u58f2", "u4e0a", "u30c7", "u30fc", "u30bf">>,
    shinchoku_kanri |-> <<"u9032", "u6357", "u7ba1", "u7406">>,
    jikan_wo_henkou |-> <<"u6642", "u9593", "u3092", "u5909", "u66f4">>,
    kyou_no_gogo |-> <<"u4eca", "u65e5", "u306e", "u5348", "u5f8c">>,
    ashita_no_asa |-> <<"u660e", "u65e5", "u306e", "u671d">>,
    ashita_no_gogo |-> <<"u660e", "u65e5", "u306e", "u5348", "u5f8c">>,
    gutaitekina_nichiji_wo_nyuuryoku |-> <<"u5177", "u4f53", "u7684", "u306a", "u65e5", "u6642", "u3092", "u5165", "u529b">>,
    meeru_wo_chekku |-> <<"u30e1", "u30fc", "u30eb", "u3092", "u30c1", "u30a7", "u30c3", "u30af">>,
    tasuku_wo_sakusei |-> <<"u30bf", "u30b9", "u30af", "u3092", "u4f5c", "u6210">>,
    dokyumento_sakusei |-> <<"u30c9", "u30ad", "u30e5", "u30e1", "u30f3", "u30c8", "u4f5c", "u6210">>,
    supureddoshiito_sakusei |-> <<"u30b9", "u30d7", "u30ec", "u30c3", "u30c9", "u30b7", "u30fc", "u30c8", "u4f5c", "u6210">>,
    yotei_wo_tsuika |-> <<"u4e88", "u5b9a", "u3092", "u8ffd", "u52a0">>,
    sonota |-> <<"u305d", "u306e", "u4ed6">>,
    meeru_kakunin |-> <<"u30e1", "u30fc", "u30eb", "u78ba", "u8a8d">>,
    tasuku_kanri |-> <<"u30bf", "u30b9", "u30af", "u7ba1", "u7406">>,
    yotei_kanri |-> <<"u4e88", "u5b9a", "u7ba1", "u7406">>,
    kaimono |-> <<"u8cb7", "u3044", "u7269">>,
    kai |-> <<"u8cb7">>,
    ni |-> <<"u306b">>,
    no |-> <<"u306e">>,
    teirei |-> <<"u5b9a", "u4f8b">>,
    tsuu |-> <<"u901a">>,
    uriage |-> <<"u58f2", "u4e0a">>,
    kanri |-> <<"u7ba1", "u7406">>,
    shuukan |-> <<"u9031", "u9593">>,
    toiu |-> <<"u3068", "u3044", "u3046">>,
    tsukutte |-> <<"u4f5c", "u3063", "u3066">>,
    te |-> <<"u3066">>,
    tte |-> <<"u3063", "u3066">>,
    mail |-> <<"m", "a", "i", "l">>,
    gmail |-> <<"g", "m", "a", "i", "l">>,
    inbox |-> <<"i", "n", "b", "o", "x">>,
    todo |-> <<"t", "o", "d", "o">>,
    docs |-> <<"d", "o", "c", "s">>,
    sheets |-> <<"s", "h", "e", "e", "t", "s">> ]

-----------------------------------------------------------------------------
(* Intent registry, in declaration order *)

ConfirmThreshold == 6
DefaultMailCount == 5
DefaultDays == 7
MinTaskTitle == 3
MinDocTitle == 2
MinSheetTitle == 2

intentPatterns == <<
  [ name |-> "gmail", minMatches |-> 2, confidence |-> 9,
    keywords |-> <<
      { W.meeru, W.mail, W.gmail, W.jushin, W.inbox, W.messeeji },
      { W.shinchaku, W.saishin, W.todoita, W.kita, W.uketotta },
      { W.kakunin, W.chekku, W.mi, W.yo, W.shirabe, W.nantsuu } >> ],
  [ name |-> "taskCreate", minMatches |-> 2, confidence |-> 8,
    keywords |-> <<
      { W.tasuku, W.todo, W.yarukoto, W.kadai, W.shigoto, W.sagyou, W.shukudai },
      { W.sakusei, W.tsukuru, W.tsuika, W.touroku, W.nyuuryoku, W.kiroku, W.kaku },
      { W.shite, W.tanomu, W.onegai, W.yatte, W.dekiru } >> ],
  [ name |-> "taskList", minMatches |-> 2, confidence |-> 9,
    keywords |-> <<
      { W.tasuku, W.todo, W.yarukoto, W.kadai, W.shigoto, W.sagyou },
      { W.ichiran, W.risuto, W.kakunin, W.mise, W.hyouji, W.oshie, W.shiri, W.donna,
        W.aru } >> ],
  [ name |-> "docCreate", minMatches |-> 2, confidence |-> 8,
    keywords |-> <<
      { W.dokyumento, W.bunsho, W.shiryou, W.repooto, W.houkokusho, W.gijiroku, W.memo,
        W.docs },
      { W.sakusei, W.tsukuru, W.kaku, W.matome, W.junbi, W.youi },
      { W.shite, W.tanomu, W.onegai, W.yatte, W.dekiru } >> ],
  [ name |-> "sheetCreate", minMatches |-> 1, confidence |-> 8,
    keywords |-> <<
      { W.supureddoshiito, W.hyou, W.shiito, W.ekuseru, W.keisansho, W.ichiranhyou,
        W.sheets },
      { W.sakusei, W.tsukuru, W.junbi, W.youi, W.matome } >> ],
  [ name |-> "calendarCreate", minMatches |-> 2, confidence |-> 7,
    keywords |-> <<
      { W.yotei, W.ibento, W.kaigi, W.miitingu, W.uchiawase, W.apo, W.sukejuuru },
      { W.sakusei, W.tsuika, W.ire, W.touroku, W.settei, W.yoyaku },
      { W.ashita, W.raishuu, W.kondo, W.atode, W.raigetsu, <<DigitRun>> \o W.ji } >> ],
  [ name |-> "calendarList", minMatches |-> 2, confidence |-> 9,
    keywords |-> <<
      { W.yotei, W.ibento, W.kaigi, W.sukejuuru, W.karendaa },
      { W.kakunin, W.mise, W.oshie, W.ichiran, W.donna, W.aru, W.kongo, W.korekara } >> ],
  [ name |-> "vague", minMatches |-> 1, confidence |-> 10,
    keywords |-> <<
      { W.nanika, W.nanka, W.chotto, W.sukoshi, W.tekitouni, W.yoroshiku, W.tanomu,
        W.onegai, W.yatte, W.shite, W.tetsuda } >> ] >>

\* the stop-word lists buildIntent hands to extractContent
taskStopWords ==
    << W.tasuku, W.todo, W.yarukoto, W.sakusei, W.tsukuru, W.tsuika, W.touroku,
       W.shite, W.kudasai, W.onegai, W.yatte >>

docStopWords ==
    << W.dokyumento, W.bunsho, W.shiryou, W.sakusei, W.tsukuru, W.kaku, W.matome,
       W.shite, W.kudasai, W.onegai >>

sheetStopWords ==
    << W.supureddoshiito, W.hyou, W.shiito, W.sakusei, W.tsukuru, W.junbi, W.shite,
       W.kudasai >>

calendarStopWords ==
    << W.yotei, W.ibento, W.kaigi, W.miitingu, W.sakusei, W.tsuika, W.ire, W.ashita,
       W.raishuu >>

-----------------------------------------------------------------------------
(* Extractors *)

\* the word w occurs in s at position i, compared as the flag i compares
OccursAt(s, w, i) ==
    /\ i + Len(w) - 1 <= Len(s)
    /\ \A j \in 1..Len(w) : LowerChar(s[i + j - 1]) = LowerChar(w[j])

\* String.prototype.includes (case-sensitive)
includes(s, w) ==
    \E i \in 1..(Len(s) - Len(w) + 1) : SubSeq(s, i, i + Len(w) - 1) = w

\* the replacement without the flag g: only the first occurrence from
\* position i on is replaced
RECURSIVE replaceFirst(_, _, _)
replaceFirst(s, w, i) ==
    IF i > Len(s) THEN <<>>
    ELSE IF OccursAt(s, w, i)
         THEN <<" ">> \o SubSeq(s, i + Len(w), Len(s))
         ELSE <<s[i]>> \o replaceFirst(s, w, i + 1)

\* cleaned.replace(new RegExp(word, 'gi'), ' ') from position i on
RECURSIVE replaceWord(_, _, _)
replaceWord(s, w, i) ==
    IF i > Len(s) THEN <<>>
    ELSE IF OccursAt(s, w, i)
         THEN <<" ">> \o replaceWord(s, w, i + Len(w))
         ELSE <<s[i]>> \o replaceWord(s, w, i + 1)

\* stopWords.forEach(...) from the k-th word on
RECURSIVE removeStopWords(_, _, _)
removeStopWords(cleaned, stopWords, k) ==
    IF k > Len(stopWords) THEN cleaned
    ELSE removeStopWords(replaceWord(cleaned, stopWords[k], 1), stopWords, k + 1)

\* s.replace(/\s+/g, ' ') from position i on
RECURSIVE collapseSpaces(_, _)
collapseSpaces(s, i) ==
    IF i > Len(s) THEN <<>>
    ELSE IF s[i] \in Whitespace
         THEN IF i > 1 /\ s[i - 1] \in Whitespace
              THEN collapseSpaces(s, i + 1)
              ELSE <<" ">> \o collapseSpaces(s, i + 1)
         ELSE <<s[i]>> \o collapseSpaces(s, i + 1)

extractContent(message, stopWords) ==
    trim(collapseSpaces(removeStopWords(message, stopWords, 1), 1))

\* message.match(/(\d+)/) at the leftmost position from i on; <<>> is null
RECURSIVE firstDigitRun(_, _)
firstDigitRun(s, i) ==
    IF i > Len(s) THEN <<>>
    ELSE IF IsDigit(s[i]) THEN digitRun(s, i)
    ELSE firstDigitRun(s, i + 1)

\* <<>> is null, <<n>> the number
extractNumber(message) ==
    LET run == firstDigitRun(message, 1)
    IN  IF run = <<>> THEN <<>> ELSE <<parseInt(run)>>

TimeSeparators == {":", W.ji[1]}

\* the (\d{0,2}) group: at most two digits starting at position i
minuteGroup(s, i) ==
    LET run == digitRun(s, i)
    IN  IF Len(run) > 2 THEN SubSeq(run, 1, 2) ELSE run

\* message.match(/(\d{1,2})[:ji](\d{0,2})/) at the leftmost position from
\* i on: <<>> is null, otherwise the two captured groups
RECURSIVE timeMatchFrom(_, _)
timeMatchFrom(s, i) ==
    IF i > Len(s) THEN <<>>
    ELSE IF /\ i + 2 <= Len(s)
            /\ IsDigit(s[i]) /\ IsDigit(s[i + 1])
            /\ s[i + 2] \in TimeSeparators
         THEN <<SubSeq(s, i, i + 1), minuteGroup(s, i + 3)>>
    ELSE IF /\ i + 1 <= Len(s)
            /\ IsDigit(s[i])
            /\ s[i + 1] \in TimeSeparators
         THEN <<SubSeq(s, i, i), minuteGroup(s, i + 2)>>
    ELSE timeMatchFrom(s, i + 1)

MinutesPerHour == 60
MinutesPerDay == 1440
DefaultHour == 10

\* date.setHours(h, m, 0, 0), on the local clock
setHours(date, h, m) ==
    (date \div MinutesPerDay) * MinutesPerDay + h * MinutesPerHour + m

\* the extractor with a default window that starts at the default hour
extractTimeAtDefaultHour(message, now) ==
    LET timeMatch == timeMatchFrom(message, 1)
        tomorrow == now + MinutesPerDay
        nextWeek == now + 7 * MinutesPerDay
        window(start, specific) ==
            [start |-> start, end |-> start + MinutesPerHour, specific |-> specific]
    IN  IF includes(message, W.ashita)
        THEN IF timeMatch # <<>>
             THEN window(setHours(tomorrow, parseInt(timeMatch[1]),
                                  parseInt(timeMatch[2])), TRUE)
             ELSE window(setHours(tomorrow, DefaultHour, 0), FALSE)
        ELSE IF includes(message, W.raishuu)
             THEN window(setHours(nextWeek, DefaultHour, 0), FALSE)
             ELSE window(setHours(now, DefaultHour, 0), FALSE)

extractTime(message, now) ==
    LET timeMatch == timeMatchFrom(message, 1)
        tomorrow == now + MinutesPerDay
        nextWeek == now + 7 * MinutesPerDay
        oneHourLater == now + MinutesPerHour
        window(start, specific) ==
            [start |-> start, end |-> start + MinutesPerHour, specific |-> specific]
    IN  IF includes(message, W.ashita)
        THEN IF timeMatch # <<>>
             THEN window(setHours(tomorrow, parseInt(timeMatch[1]),
                                  parseInt(timeMatch[2])), TRUE)
             ELSE window(setHours(tomorrow, DefaultHour, 0), FALSE)
        ELSE IF includes(message, W.raishuu)
             THEN window(setHours(nextWeek, DefaultHour, 0), FALSE)
             ELSE window(oneHourLater, FALSE)

-----------------------------------------------------------------------------
(* Classification *)

NoParams == [f \in {} |-> 0]

\* matchesPatterns, counting from the g-th pattern on
RECURSIVE countMatches(_, _, _)
countMatches(message, patterns, g) ==
    IF g > Len(patterns) THEN 0
    ELSE (IF test(patterns[g], message) THEN 1 ELSE 0)
         + countMatches(message, patterns, g + 1)

\* the comparison of matchesPatterns written as "more than"
matchesPatternsStrictly(message, patterns, minMatches) ==
    countMatches(message, patterns, 1) > minMatches

matchesPatterns(message, patterns, minMatches) ==
    countMatches(message, patterns, 1) >= minMatches

\* intent.params.count = this.extractNumber(message) || 5
orDefault(number, default) ==
    IF number = <<>> \/ number[1] = 0 THEN default ELSE number[1]

\* the calendar check without the test of time.specific
calendarNeedsTitleOnly(title, time) ==
    title = <<>>

calendarNeedsConfirmation(title, time) ==
    title = <<>> \/ ~time.specific

buildIntent(type, message, confidence, now) ==
    LET intent(t, params, needs) ==
            [type |-> t, confidence |-> confidence, params |-> params,
             needsConfirmation |-> needs]
    IN  CASE type = "gmail" ->
               intent(type, [count |-> orDefault(extractNumber(message), DefaultMailCount)], FALSE)
          [] type = "taskCreate" ->
               LET title == extractContent(message, taskStopWords)
               IN  intent(type, [title |-> title],
                          title = <<>> \/ Len(title) < MinTaskTitle)
          [] type = "docCreate" ->
               LET title == extractContent(message, docStopWords)
               IN  intent(type, [title |-> title],
                          title = <<>> \/ Len(title) < MinDocTitle)
          [] type = "sheetCreate" ->
               LET title == extractContent(message, sheetStopWords)
               IN  intent(type, [title |-> title],
                          title = <<>> \/ Len(title) < MinSheetTitle)
          [] type = "calendarCreate" ->
               LET title == extractContent(message, calendarStopWords)
                   time == extractTime(message, now)
               IN  intent(type, [title |-> title, time |-> time],
                          calendarNeedsConfirmation(title, time))
          [] type = "calendarList" ->
               intent(type, [days |-> orDefault(extractNumber(message), DefaultDays)], FALSE)
          [] type = "vague" ->
               intent("clarification_needed", [originalMessage |-> message], TRUE)
          [] OTHER ->
               intent(type, NoParams, FALSE)

\* the fall-through result carrying the type of the catch-all entry
FallThroughAsClarification ==
    [type |-> "clarification_needed", confidence |-> 0, params |-> NoParams,
     needsConfirmation |-> TRUE]

UnknownIntent ==
    [type |-> "unknown", confidence |-> 0, params |-> NoParams,
     needsConfirmation |-> TRUE]

\* the loop of parseIntent run from the last registry entry to the first
RECURSIVE parseBackwards(_, _, _, _)
parseBackwards(k, msg, message, now) ==
    LET entry == intentPatterns[Len(intentPatterns) + 1 - k]
    IN  IF k > Len(intentPatterns) THEN UnknownIntent
        ELSE IF countMatches(msg, entry.keywords, 1) >= entry.minMatches
             THEN buildIntent(entry.name, message, entry.confidence, now)
             ELSE parseBackwards(k + 1, msg, message, now)

\* the for loop of parseIntent, from the k-th registry entry on
RECURSIVE parseFrom(_, _, _, _)
parseFrom(k, msg, message, now) ==
    IF k > Len(intentPatterns) THEN UnknownIntent
    ELSE IF matchesPatterns(msg, intentPatterns[k].keywords,
                            intentPatterns[k].minMatches)
         THEN buildIntent(intentPatterns[k].name, message,
                          intentPatterns[k].confidence, now)
         ELSE parseFrom(k + 1, msg, message, now)

parseIntent(message, now) ==
    parseFrom(1, trim(toLowerCase(message)), message, now)

-----------------------------------------------------------------------------
(* Replies *)

\* the phrase catalogs, each phrase named by its place in its list
responseVariations ==
    [ success |-> {"success[0]", "success[1]", "success[2]", "success[3]",
                   "success[4]", "success[5]", "success[6]"},
      error |-> {"error[0]", "error[1]", "error[2]", "error[3]", "error[4]"},
      clarification |-> {"clarification[0]", "clarification[1]",
                         "clarification[2]", "clarification[3]"} ]

\* Math.random picks any member of the catalog
getRandomResponse(type) == responseVariations[type]

NoTitle == <<>>
NoTime == -1

\* a message: an optional leading phrase, a fixed text, and the title and
\* time the template interpolates
Message(phrase, text, title, time) ==
    [phrase |-> phrase, text |-> text, title |-> title, time |-> time]

FallbackText == "sorry, I did not understand; what do you want to do?"

\* the confirmations generateConfirmation can return for the intent
generateConfirmation(intent) ==
    LET params == intent.params
        one(text, title, time, options) ==
            {[message |-> Message("", text, title, time), options |-> options]}
    IN  CASE intent.type = "taskCreate" ->
               IF params.title # <<>>
               THEN one("taskCreate: create the task ${title}?", params.title, NoTime,
                        <<W.hai, W.iie, W.taitoru_wo_henkou>>)
               ELSE one("taskCreate: what is the task?", NoTitle, NoTime,
                        <<W.kaigi_no_junbi, W.repooto_sakusei, W.shiryou_matome, W.sonota_tenyuuryoku>>)
          [] intent.type = "docCreate" ->
               IF params.title # <<>>
               THEN one("docCreate: create the document ${title}?", params.title, NoTime,
                        <<W.hai, W.iie, W.taitoru_wo_henkou>>)
               ELSE one("docCreate: what is the title?", NoTitle, NoTime,
                        <<W.kaigi_shiryou, W.purojekuto_houkokusho, W.memo, W.sonota_tenyuuryoku>>)
          [] intent.type = "sheetCreate" ->
               IF params.title # <<>>
               THEN one("sheetCreate: create the spreadsheet ${title}?", params.title, NoTime,
                        <<W.hai, W.iie, W.taitoru_wo_henkou>>)
               ELSE one("sheetCreate: what kind of table?", NoTitle, NoTime,
                        <<W.tasuku_kanrihyou, W.uriage_deeta, W.shinchoku_kanri, W.sonota_tenyuuryoku>>)
          [] intent.type = "calendarCreate" ->
               IF params.time.specific
               THEN one("calendarCreate: create ${title} at ${start}?", params.title,
                        params.time.start, <<W.hai, W.iie, W.jikan_wo_henkou>>)
               ELSE one("calendarCreate: when is ${title}?", params.title, NoTime,
                        <<W.kyou_no_gogo, W.ashita_no_asa, W.ashita_no_gogo, W.gutaitekina_nichiji_wo_nyuuryoku>>)
          [] intent.type = "clarification_needed" ->
               { [message |-> Message("", text, NoTitle, NoTime),
                  options |-> <<W.meeru_wo_chekku, W.tasuku_wo_sakusei, W.dokyumento_sakusei,
                                W.supureddoshiito_sakusei, W.yotei_wo_tsuika, W.sonota>>] :
                 text \in getRandomResponse("clarification") }
          [] OTHER ->
               one(FallbackText, NoTitle, NoTime,
                   <<W.meeru_kakunin, W.tasuku_kanri, W.dokyumento_sakusei, W.yotei_kanri>>)

-----------------------------------------------------------------------------
(* Dispatch to the collaborators *)

NullClientError == "TypeError: Cannot read properties of null"
NoTaskListError == "TypeError: Cannot read properties of undefined"
ApiError == "API request failed"
UnknownOperationText == "I have not learned that operation yet"

\* what an execute method can do: the API requests it issued, then either a
\* thrown error or a returned result
Thrown(requests, error) ==
    [requests |-> requests, thrown |-> TRUE, success |-> FALSE,
     message |-> Message("", error, NoTitle, NoTime)]

Returned(requests, success, text, title, time) ==
    [requests |-> requests, thrown |-> FALSE, success |-> success,
     message |-> Message("", text, title, time)]

\* a method that awaits the requests in turn: any of them can reject, and a
\* null client throws before the first one
Awaiting(ready, requests, returned) ==
    IF ~ready THEN {Thrown(<<>>, NullClientError)}
    ELSE {Thrown(SubSeq(requests, 1, k), ApiError) : k \in 1..Len(requests)}
         \cup returned

executeGmail(ready, count) ==
    LET list == <<"gmail.users.messages.list">>
        gets(n) == [i \in 1..n |-> "gmail.users.messages.get"]
        found == {n \in 0..MaxMail : n <= count}
    IN  UNION { Awaiting(ready, list \o gets(n),
                  {IF n = 0
                   THEN Returned(list, TRUE, "no new mail", NoTitle, NoTime)
                   ELSE Returned(list \o gets(n), TRUE,
                                 "the latest ${n} mails", NoTitle, NoTime)})
                : n \in found }

executeTaskCreate(ready, title) ==
    LET requests == <<"tasks.tasklists.list", "tasks.tasks.insert">>
    IN  Awaiting(ready, requests,
          {Returned(requests, TRUE, "added ${title} to the task list", title, NoTime),
           Thrown(<<"tasks.tasklists.list">>, NoTaskListError)})

executeTaskList(ready) ==
    LET requests == <<"tasks.tasklists.list", "tasks.tasks.list">>
    IN  Awaiting(ready, requests,
          {Returned(requests, TRUE, "all tasks are done", NoTitle, NoTime),
           Returned(requests, TRUE, "the current tasks", NoTitle, NoTime),
           Thrown(<<"tasks.tasklists.list">>, NoTaskListError)})

executeDocCreate(ready, title) ==
    LET requests == <<"docs.documents.create">>
    IN  Awaiting(ready, requests,
          {Returned(requests, TRUE, "created the document ${title}", title, NoTime)})

executeSheetCreate(ready, title) ==
    LET requests == <<"sheets.spreadsheets.create">>
    IN  Awaiting(ready, requests,
          {Returned(requests, TRUE, "created the spreadsheet ${title}", title, NoTime)})

executeCalendarCreate(ready, title, time) ==
    LET requests == <<"calendar.events.insert">>
    IN  Awaiting(ready, requests,
          {Returned(requests, TRUE, "scheduled ${title} at ${start}",
                    title, time.start)})

executeCalendarList(ready, days) ==
    LET requests == <<"calendar.events.list">>
    IN  Awaiting(ready, requests,
          {Returned(requests, TRUE, "no events in the next ${days} days", NoTitle, NoTime),
           Returned(requests, TRUE, "the coming events", NoTitle, NoTime)})

\* the collaborator operation the switch of executeIntent selects; <<>> for
\* the default arm
handlerOf(intent) ==
    CASE intent.type = "gmail" -> <<[op |-> "executeGmail", args |-> [count |-> intent.params.count]]>>
      [] intent.type = "taskCreate" -> <<[op |-> "executeTaskCreate", args |-> [title |-> intent.params.title]]>>
      [] intent.type = "taskList" -> <<[op |-> "executeTaskList", args |-> NoParams]>>
      [] intent.type = "docCreate" -> <<[op |-> "executeDocCreate", args |-> [title |-> intent.params.title]]>>
      [] intent.type = "sheetCreate" -> <<[op |-> "executeSheetCreate", args |-> [title |-> intent.params.title]]>>
      [] intent.type = "calendarCreate" ->
           <<[op |-> "executeCalendarCreate",
              args |-> [title |-> intent.params.title, time |-> intent.params.time]]>>
      [] intent.type = "calendarList" -> <<[op |-> "executeCalendarList", args |-> [days |-> intent.params.days]]>>
      [] OTHER -> <<>>

\* a dispatcher that sends every intent to the mail handler
executeIntentByDefault(ready, intent) ==
    executeGmail(ready, DefaultMailCount)

\* the outcomes executeIntent can have for the intent
executeIntent(ready, intent) ==
    CASE intent.type = "gmail" -> executeGmail(ready, intent.params.count)
      [] intent.type = "taskCreate" -> executeTaskCreate(ready, intent.params.title)
      [] intent.type = "taskList" -> executeTaskList(ready)
      [] intent.type = "docCreate" -> executeDocCreate(ready, intent.params.title)
      [] intent.type = "sheetCreate" -> executeSheetCreate(ready, intent.params.title)
      [] intent.type = "calendarCreate" ->
           executeCalendarCreate(ready, intent.params.title, intent.params.time)
      [] intent.type = "calendarList" -> executeCalendarList(ready, intent.params.days)
      [] OTHER -> {Returned(<<>>, FALSE, UnknownOperationText, NoTitle, NoTime)}

-----------------------------------------------------------------------------
(* Inputs *)

Users == {"u1", "u2"}

\* 10:15 and 23:30 of day 0
Clock == {615, 1410}

\* the messages of the dialogues: commands, and answers to the prompts
DialogueTexts == {
    W.meeru \o W.kakunin,
    W.tasuku \o W.sakusei,
    W.kaigi_no_junbi,
    W.iie,
    W.kaimono,
    W.kaimono \o W.tasuku \o W.tsuika,
    W.kai \o W.tasuku \o W.tsuika,
    W.ashita \o <<"1", "4">> \o W.ji \o W.ni \o W.teirei \o W.kaigi \o W.no \o W.yotei,
    W.ashita \o W.kaigi \o W.no \o W.yotei,
    W.yoroshiku }

\* the words the classified texts are built from
Vocabulary == {
    W.meeru, W.kakunin, <<"T", "O", "D", "O">>, W.tsuika, W.shite, W.yotei,
    W.ashita, W.hyou, W.kaimono }

\* the texts of at most n words of the vocabulary
RECURSIVE Phrases(_)
Phrases(n) ==
    IF n = 0 THEN {<<>>}
    ELSE {<<>>} \cup {w \o p : w \in Vocabulary, p \in Phrases(n - 1)}

Texts == Phrases(MaxWords)

\* the words of the texts that carry a number or a time
SlotVocabulary == {
    W.meeru, W.kakunin, W.yotei, W.ashita, W.raishuu, <<"0">>, <<"3">>,
    <<"3">> \o W.ji }

\* the texts of at most n of these words
RECURSIVE SlotPhrases(_)
SlotPhrases(n) ==
    IF n = 0 THEN {<<>>}
    ELSE {<<>>} \cup {w \o p : w \in SlotVocabulary, p \in SlotPhrases(n - 1)}

SlotTexts == SlotPhrases(MaxSlotWords)

-----------------------------------------------------------------------------
(* The MCP servers are separate processes: while the engine runs, none of   *)
(* their state exists.                                                      *)

Null == "null"

NoServer ==
    /\ tools = {}
    /\ lines = <<>>
    /\ running = {}
    /\ stdout = <<>>
    /\ initRuns = {}
    /\ databaseId = Null
    /\ notionCalls = EmptyBag
    /\ assignments = 0
    /\ env = [serviceAccountKey |-> FALSE, oauth |-> FALSE]
    /\ clients = [service |-> FALSE, oauth |-> FALSE]

-----------------------------------------------------------------------------
(* State machine *)

NoIntent ==
    [type |-> "none", confidence |-> 0, params |-> NoParams,
     needsConfirmation |-> FALSE]

NoResult ==
    [success |-> FALSE, message |-> Message("", "", NoTitle, NoTime),
     options |-> <<>>, needsUserInput |-> FALSE, pendingIntent |-> NoIntent]

SameIntent(a, b) == a.type = b.type /\ a = b

Init ==
    /\ initialized = FALSE
    /\ conversationContext = [u \in {} |-> NoIntent]
    /\ handled = "none"
    /\ lastMessage = <<>>
    /\ clock = 0
    /\ lastIntent = NoIntent
    /\ result = NoResult
    /\ calls = <<>>
    /\ apiCalls = <<>>
    /\ awaiting = [u \in Users |-> NoIntent]
    /\ prompts = [u \in Users |-> 0]
    /\ inflight = EmptyBag
    /\ NoServer

\* async initialize(): the API clients are created
Initialize ==
    /\ initialized' = TRUE
    /\ UNCHANGED <<serverVars, conversationContext, handled, lastMessage, clock, lastIntent, result,
                   calls, apiCalls, awaiting, prompts, inflight>>

\* the gate without the test of needsConfirmation
needsUserInputByConfidence(parsed) ==
    parsed.confidence < ConfirmThreshold

\* the gate of processMessage: ask instead of executing
needsUserInput(parsed) ==
    parsed.needsConfirmation \/ parsed.confidence < ConfirmThreshold

\* this.parseIntent(message, userId) for the messages of the dialogues
parsedMessages ==
    [text \in DialogueTexts |-> [now \in Clock |-> parseIntent(text, now)]]

\* the reply of the gate: the confirmation and the intent it is about
asked(confirmation, parsed) ==
    [success |-> TRUE,
     message |-> confirmation.message,
     options |-> confirmation.options,
     needsUserInput |-> TRUE,
     pendingIntent |-> parsed]

\* the reply after executeIntent returned: a phrase and the result's message
replied(outcome, phrase) ==
    [success |-> outcome.success,
     message |-> [outcome.message EXCEPT !.phrase = phrase],
     options |-> <<>>,
     needsUserInput |-> FALSE,
     pendingIntent |-> NoIntent]

\* the catch block dropping error.message from its reply
caughtWithoutText(outcome, phrase) ==
    [success |-> FALSE,
     message |-> Message(phrase, "", NoTitle, NoTime),
     options |-> <<>>,
     needsUserInput |-> FALSE,
     pendingIntent |-> NoIntent]

\* no catch block: the error leaves processMessage as it was thrown
rethrown(outcome, phrase) ==
    [success |-> FALSE,
     message |-> outcome.message,
     options |-> <<>>,
     needsUserInput |-> FALSE,
     pendingIntent |-> NoIntent]

\* the reply of the catch block: an error phrase and error.message
caught(outcome, phrase) ==
    [success |-> FALSE,
     message |-> [outcome.message EXCEPT !.phrase = phrase],
     options |-> <<>>,
     needsUserInput |-> FALSE,
     pendingIntent |-> NoIntent]

\* the reply going to the callers of every user
pendingForAll(replies, userId, pending) ==
    [u \in DOMAIN replies |-> pending]

\* the reply goes to the caller that passed userId, and to nobody else
pendingFor(replies, userId, pending) ==
    [replies EXCEPT ![userId] = pending]

\* processMessage returns the confirmation of the gate
Asks(userId, text, now, parsed) ==
    /\ handled' = userId
    /\ lastMessage' = text
    /\ clock' = now
    /\ lastIntent' = parsed
    /\ \E confirmation \in generateConfirmation(parsed) :
          result' = asked(confirmation, parsed)
    /\ calls' = <<>>
    /\ apiCalls' = <<>>
    /\ awaiting' = pendingFor(awaiting, userId, parsed)
    /\ prompts' = [prompts EXCEPT ![userId] =
                      IF SameIntent(awaiting[userId], parsed)
                      THEN IF @ < MaxPrompts THEN @ + 1 ELSE @
                      ELSE 1]

\* processMessage returns after executeIntent ended with the outcome
Returns(userId, text, now, parsed, outcome) ==
    /\ handled' = userId
    /\ lastMessage' = text
    /\ clock' = now
    /\ lastIntent' = parsed
    /\ \E phrase \in getRandomResponse(IF outcome.success
                                       THEN "success" ELSE "error") :
          result' = IF outcome.thrown
                    THEN caught(outcome, phrase)
                    ELSE replied(outcome, phrase)
    /\ apiCalls' = outcome.requests
    /\ calls' = handlerOf(parsed)
    /\ awaiting' = pendingFor(awaiting, userId, NoIntent)
    /\ prompts' = [prompts EXCEPT ![userId] = 0]

\* processMessage storing the intent it classified in the user's entry of
\* conversationContext
ProcessRemembering(userId, text, now, parsed) ==
    /\ IF needsUserInput(parsed)
       THEN Asks(userId, text, now, parsed)
       ELSE \E outcome \in executeIntent(initialized, parsed) :
                Returns(userId, text, now, parsed, outcome)
    /\ conversationContext' = (userId :> [intent |-> parsed]) @@ conversationContext
    /\ UNCHANGED <<serverVars, initialized, inflight>>

\* the body of processMessage once parseIntent returned the intent
Process(userId, text, now, parsed) ==
    /\ IF needsUserInput(parsed)
       THEN Asks(userId, text, now, parsed)
       ELSE \E outcome \in executeIntent(initialized, parsed) :
                Returns(userId, text, now, parsed, outcome)
    /\ UNCHANGED <<serverVars, initialized, conversationContext, inflight>>

\* processMessage with a classification that consults the dialogue: while
\* an intent of the user is pending, the message is taken as that intent
ProcessMessageInContext(userId, text, now) ==
    Process(userId, text, now,
            IF awaiting[userId] # NoIntent
            THEN awaiting[userId]
            ELSE parsedMessages[text][now])

\* async processMessage(message, userId), from the call to the returned
\* value, when nothing else runs while it awaits
ProcessMessage(userId, text, now) ==
    Process(userId, text, now, parsedMessages[text][now])

Next ==
    \/ Initialize
    \/ \E userId \in Users, text \in DialogueTexts, now \in Clock :
           ProcessMessage(userId, text, now)

Spec == Init /\ [][Next]_vars

(* processMessage as the event loop runs it: a call runs up to its first   *)
(* await and is suspended there until the collaborator settles the         *)
(* request; other calls run in between.                                    *)

MaxInflight == 2

\* the message handled concurrently, and the clock reading of its calls
AsyncTexts == {W.meeru \o W.kakunin}

AsyncClock == {615}

\* how the collaborator can settle an awaited request
Settlements == {"resolved", "rejected"}

\* a suspended call: its arguments, the requests issued so far, and whether
\* the request it awaits has settled
Handling(userId, text, now, issued, settled) ==
    [userId |-> userId, text |-> text, now |-> now, issued |-> issued,
     settled |-> settled]

IsPrefix(p, s) == Len(p) <= Len(s) /\ SubSeq(s, 1, Len(p)) = p

\* the outcomes in which the awaited request of the handling rejects
rejections(outcomes, issued) ==
    {o \in outcomes : o.thrown /\ o.requests = issued /\ o.message.text = ApiError}

\* the outcomes in which the handler ends once the awaited request resolved
completions(outcomes, issued) ==
    {o \in outcomes : o.requests = issued /\ ~(o.thrown /\ o.message.text = ApiError)}

\* the requests the handler can issue after those it issued
continuations(outcomes, issued) ==
    {o.requests[Len(issued) + 1] :
        o \in {x \in outcomes : Len(x.requests) > Len(issued) /\ IsPrefix(issued, x.requests)}}

\* processMessage is called: it returns at once from the gate, from the
\* default arm or from a throw before the first await, and is otherwise
\* suspended at the first request of its handler
Call(userId, text, now) ==
    LET parsed == parsedMessages[text][now]
        outcomes == executeIntent(initialized, parsed)
    IN  IF needsUserInput(parsed)
        THEN /\ Asks(userId, text, now, parsed)
             /\ UNCHANGED <<serverVars, initialized, conversationContext, inflight>>
        ELSE \/ /\ \E outcome \in completions(outcomes, <<>>) :
                      Returns(userId, text, now, parsed, outcome)
                /\ UNCHANGED <<serverVars, initialized, conversationContext, inflight>>
             \/ /\ BagCardinality(inflight) < MaxInflight
                /\ \E request \in continuations(outcomes, <<>>) :
                      inflight' = inflight (+)
                          SetToBag({Handling(userId, text, now, <<request>>, "pending")})
                /\ UNCHANGED <<serverVars, initialized, conversationContext, handled,
                               lastMessage, clock, lastIntent, result, calls,
                               apiCalls, awaiting, prompts>>

\* the collaborator settles the request a suspended call awaits
Settle(h, how) ==
    /\ BagIn(h, inflight)
    /\ h.settled = "pending"
    /\ inflight' = (inflight (-) SetToBag({h}))
                       (+) SetToBag({[h EXCEPT !.settled = how]})
    /\ UNCHANGED <<serverVars, initialized, conversationContext, handled, lastMessage, clock,
                   lastIntent, result, calls, apiCalls, awaiting, prompts>>

\* the event loop resumes a call whose request has settled: the catch block
\* after a rejection, otherwise the rest of the handler up to its next await
\* or its return
Resume(h) ==
    LET parsed == parsedMessages[h.text][h.now]
        outcomes == executeIntent(initialized, parsed)
        others == inflight (-) SetToBag({h})
    IN  /\ BagIn(h, inflight)
        /\ h.settled \in Settlements
        /\ IF h.settled = "rejected"
           THEN /\ \E outcome \in rejections(outcomes, h.issued) :
                      Returns(h.userId, h.text, h.now, parsed, outcome)
                /\ inflight' = others
           ELSE \/ /\ \E outcome \in completions(outcomes, h.issued) :
                         Returns(h.userId, h.text, h.now, parsed, outcome)
                   /\ inflight' = others
                \/ /\ \E request \in continuations(outcomes, h.issued) :
                         inflight' = others (+)
                             SetToBag({Handling(h.userId, h.text, h.now,
                                                Append(h.issued, request), "pending")})
                   /\ UNCHANGED <<handled, lastMessage, clock, lastIntent, result,
                                  calls, apiCalls, awaiting, prompts>>
        /\ UNCHANGED <<serverVars, initialized, conversationContext>>

Calls ==
    \E userId \in Users, text \in AsyncTexts, now \in AsyncClock :
        Call(userId, text, now)

Settles ==
    \E h \in BagToSet(inflight), how \in Settlements : Settle(h, how)

Resumes ==
    \E h \in BagToSet(inflight) : Resume(h)

AsyncNext ==
    \/ Initialize
    \/ Calls
    \/ Settles
    \/ Resumes

\* the event loop runs the continuation of every settled request; nothing
\* makes a collaborator settle one, or a caller call
AsyncSpec == Init /\ [][AsyncNext]_vars /\ WF_vars(Resumes)

-----------------------------------------------------------------------------
(* executeIntent on its own: an intent and the state of the clients are     *)
(* drawn, then the method is applied to them.                               *)

\* the messages of testUnifiedNL
testMessages == <<
    W.meeru \o <<"3">> \o W.tsuu \o W.kakunin \o W.shite,
    W.kaigi_no_junbi \o W.toiu \o W.tasuku \o W.tsukutte,
    W.purojekuto_houkokusho \o W.no \o W.dokyumento_sakusei,
    W.tasuku \o W.risuto \o W.mise \o W.te,
    W.ashita \o <<"1", "4">> \o W.ji \o W.ni \o W.teirei \o W.kaigi \o W.no \o W.yotei,
    W.uriage \o W.kanri \o W.hyou \o W.no \o W.supureddoshiito,
    W.kongo \o <<"1">> \o W.shuukan \o W.no \o W.yotei \o W.oshie \o W.te,
    W.yoroshiku,
    W.chotto \o W.tetsuda \o W.tte >>

\* the intents executeIntent is given: those of the test messages, of the
\* dialogues and of short texts with numbers and times, and the unknown intent
Intents ==
    {parseIntent(testMessages[i], now) : i \in 1..Len(testMessages), now \in Clock}
        \cup {parsedMessages[text][now] : text \in DialogueTexts, now \in Clock}
        \cup {parseIntent(text, now) : text \in SlotPhrases(MaxIntentWords), now \in Clock}
        \cup {UnknownIntent}

DispatchInit ==
    /\ initialized \in BOOLEAN
    /\ conversationContext = [u \in {} |-> NoIntent]
    /\ handled = "none"
    /\ lastMessage = <<>>
    /\ clock = 0
    /\ lastIntent \in Intents
    /\ result = NoResult
    /\ calls = <<>>
    /\ apiCalls = <<>>
    /\ awaiting = [u \in Users |-> NoIntent]
    /\ prompts = [u \in Users |-> 0]
    /\ inflight = EmptyBag
    /\ NoServer

\* async executeIntent(intent), from the call to its result or its error
ExecuteIntent ==
    /\ result = NoResult
    /\ \E outcome \in executeIntent(initialized, lastIntent) :
          /\ result' = [NoResult EXCEPT !.success = outcome.success,
                                        !.message = outcome.message]
          /\ apiCalls' = outcome.requests
    /\ calls' = handlerOf(lastIntent)
    /\ UNCHANGED <<serverVars, initialized, conversationContext, handled, lastMessage, clock,
                   lastIntent, awaiting, prompts, inflight>>

DispatchNext == ExecuteIntent

DispatchSpec == DispatchInit /\ [][DispatchNext]_vars

-----------------------------------------------------------------------------
(* processMessage on its own: a text, a clock reading and the state of the  *)
(* clients are drawn, then one message of a user is handled.                *)

SingleInit ==
    /\ initialized \in BOOLEAN
    /\ conversationContext = [u \in {} |-> NoIntent]
    /\ handled = "none"
    /\ lastMessage \in SlotTexts
    /\ clock \in Clock
    /\ lastIntent = NoIntent
    /\ result = NoResult
    /\ calls = <<>>
    /\ apiCalls = <<>>
    /\ awaiting = [u \in Users |-> NoIntent]
    /\ prompts = [u \in Users |-> 0]
    /\ inflight = EmptyBag
    /\ NoServer

ProcessOnce(userId) ==
    /\ handled = "none"
    /\ Process(userId, lastMessage, clock, parseIntent(lastMessage, clock))

SingleNext == \E userId \in Users : ProcessOnce(userId)

SingleSpec == SingleInit /\ [][SingleNext]_vars

-----------------------------------------------------------------------------
(* buildIntent on its own: a text and a clock reading are drawn, then the   *)
(* slots of one registry entry are extracted from the text.                 *)

MaxBuildWords == 3

\* the words of the texts the slots are extracted from: day markers, a time
\* of day, stop words in either case, white space and a word that is kept
BuildVocabulary == {
    W.ashita, W.raishuu, <<"3">> \o W.ji, <<"T", "o", "D", "O">>, W.shite, <<" ">>,
    W.kaimono }

\* the texts of at most n of these words
RECURSIVE BuildPhrases(_)
BuildPhrases(n) ==
    IF n = 0 THEN {<<>>}
    ELSE {<<>>} \cup {w \o p : w \in BuildVocabulary, p \in BuildPhrases(n - 1)}

BuildTexts == BuildPhrases(MaxBuildWords)

BuildInit ==
    /\ initialized = FALSE
    /\ conversationContext = [u \in {} |-> NoIntent]
    /\ handled = "none"
    /\ lastMessage \in BuildTexts
    /\ clock \in Clock
    /\ lastIntent = NoIntent
    /\ result = NoResult
    /\ calls = <<>>
    /\ apiCalls = <<>>
    /\ awaiting = [u \in Users |-> NoIntent]
    /\ prompts = [u \in Users |-> 0]
    /\ inflight = EmptyBag
    /\ NoServer

\* this.buildIntent(intentType, message, config.confidence) for the k-th
\* registry entry
BuildIntent(k) ==
    /\ lastIntent = NoIntent
    /\ lastIntent' = buildIntent(intentPatterns[k].name, lastMessage,
                                 intentPatterns[k].confidence, clock)
    /\ UNCHANGED <<serverVars, initialized, conversationContext, handled, lastMessage, clock,
                   result, calls, apiCalls, awaiting, prompts, inflight>>

BuildNext == \E k \in 1..Len(intentPatterns) : BuildIntent(k)

BuildSpec == BuildInit /\ [][BuildNext]_vars

-----------------------------------------------------------------------------
(* MCPBaseServer (the class in src/setup_env_vars.ps1): a registry of tools  *)
(* and a JSON-RPC loop that reads request lines and writes response lines.   *)

MaxLines == 3

ParseError == -32700
MethodNotFound == -32601
InternalError == -32603

\* the state of the engine, which is not part of a server process
engineVars == <<initialized, conversationContext, handled, lastMessage, clock,
                lastIntent, result, calls, apiCalls, awaiting, prompts, inflight>>

NoEngine ==
    /\ initialized = FALSE
    /\ conversationContext = [u \in {} |-> NoIntent]
    /\ handled = "none"
    /\ lastMessage = <<>>
    /\ clock = 0
    /\ lastIntent = NoIntent
    /\ result = NoResult
    /\ calls = <<>>
    /\ apiCalls = <<>>
    /\ awaiting = [u \in Users |-> NoIntent]
    /\ prompts = [u \in Users |-> 0]
    /\ inflight = EmptyBag

\* the tools the Notion server registers in its constructor
NotionTools ==
    {"create_database", "create_page", "update_page", "search", "add_todo",
     "list_todos", "complete_todo"}

\* a method name, as the text before its first "/" and the text after it
ListTools == <<"tools", "_list_tools">>

Methods ==
    {ListTools, <<"tools", "add_todo">>, <<"tools", "remove_todo">>,
     <<"resources", "list">>}

\* the lines a client can write as its request number id: a line that is not
\* JSON, a request without a method, and a request for each method
RequestLines(id) ==
    {[json |-> FALSE]}
        \cup {[json |-> TRUE, id |-> id]}
        \cup {[json |-> TRUE, id |-> id, method |-> m] : m \in Methods}

\* the id null of a response
NoId == 0

Result(id, value) == [jsonrpc |-> "2.0", id |-> id, result |-> value]

Error(id, code) == [jsonrpc |-> "2.0", id |-> id, error |-> [code |-> code]]

\* method.startsWith('tools/')
startsWithTools(method) == Len(method) = 2 /\ method[1] = "tools"

\* handleRequest up to its first await: it returns a response, throws, or
\* awaits the handler of a registered tool
handleRequest(registry, request) ==
    IF "method" \notin DOMAIN request
    THEN [does |-> "throw"]
    ELSE IF request.method = ListTools
    THEN [does |-> "return", response |-> Result(request.id, registry)]
    ELSE IF startsWithTools(request.method)
    THEN IF request.method[2] \notin registry
         THEN [does |-> "return", response |-> Error(request.id, MethodNotFound)]
         ELSE [does |-> "await", tool |-> request.method[2]]
    ELSE [does |-> "return", response |-> Error(request.id, MethodNotFound)]

\* a handler resolves with its result or rejects with an error
Completions == {"returns", "throws"}

ServerInit ==
    /\ NoEngine
    /\ tools = NotionTools
    /\ lines = <<>>
    /\ running = {}
    /\ stdout = <<>>
    /\ initRuns = {}
    /\ databaseId = Null
    /\ notionCalls = EmptyBag
    /\ assignments = 0
    /\ env = [serviceAccountKey |-> FALSE, oauth |-> FALSE]
    /\ clients = [service |-> FALSE, oauth |-> FALSE]

\* the callback of rl.on('line'): JSON.parse, then handleRequest up to the
\* await of the tool's handler, or up to the response it writes
Line(line) ==
    /\ Len(lines) < MaxLines
    /\ lines' = Append(lines, line)
    /\ IF ~line.json
       THEN /\ stdout' = Append(stdout, Error(NoId, ParseError))
            /\ UNCHANGED running
       ELSE LET step == handleRequest(tools, line)
            IN  CASE step.does = "throw" ->
                       /\ stdout' = Append(stdout, Error(NoId, ParseError))
                       /\ UNCHANGED running
                  [] step.does = "return" ->
                       /\ stdout' = Append(stdout, step.response)
                       /\ UNCHANGED running
                  [] step.does = "await" ->
                       /\ running' = running \cup {[id |-> line.id, tool |-> step.tool]}
                       /\ UNCHANGED stdout
    /\ UNCHANGED <<engineVars, tools, initRuns, databaseId, notionCalls,
                   assignments, env, clients>>

\* the handler a callback awaits completes, and the callback writes the
\* response: the result, or the error of the catch block of handleRequest
HandlerSettles(call, how) ==
    /\ call \in running
    /\ running' = running \ {call}
    /\ stdout' = Append(stdout, IF how = "returns"
                                THEN Result(call.id, call.tool)
                                ELSE Error(call.id, InternalError))
    /\ UNCHANGED <<engineVars, tools, lines, initRuns, databaseId, notionCalls,
                   assignments, env, clients>>

Reads == \E line \in RequestLines(Len(lines) + 1) : Line(line)

Settlings == \E call \in running, how \in Completions : HandlerSettles(call, how)

ServerNext ==
    \/ Reads
    \/ Settlings

ServerSpec == ServerInit /\ [][ServerNext]_vars

-----------------------------------------------------------------------------
(* NotionMCPServer (src/mcp/notion/server.js): the constructor starts        *)
(* initializeDatabase without awaiting it, and add_todo and list_todos start *)
(* it again while this.databaseId is not set.                                *)

\* the value of a property that is missing: db.database_id of a failed
\* createDatabase
Undefined == "undefined"

\* the id of the database the search finds, and of the n-th database created
ExistingDatabase == "db0"

CreatedDatabase(n) == "db" \o ToString(n)

\* !this.databaseId
NoDatabase(id) == id \in {Null, Undefined}

\* the request the handler of the tool issues once the database id is known
apiOf(tool) == IF tool = "add_todo" THEN "pages.create" ELSE "databases.query"

\* the request is issued to the Notion API
issue(issued, request) == issued (+) SetToBag({request})

\* the request lines of the two tools that need the database
NotionLines(id) ==
    {[json |-> TRUE, id |-> id, method |-> <<"tools", tool>>] :
        tool \in {"add_todo", "list_todos"}}

\* how a request to the Notion API settles
Settled == {"resolved", "rejected"}

\* the constructor has run: the tools are registered and initializeDatabase
\* has run up to the await of its search
NotionInit ==
    /\ NoEngine
    /\ tools = NotionTools
    /\ lines = <<>>
    /\ running = {}
    /\ stdout = <<>>
    /\ initRuns = {[owner |-> 0, at |-> "search"]}
    /\ databaseId = Null
    /\ notionCalls = SetToBag({"search"})
    /\ assignments = 0
    /\ env = [serviceAccountKey |-> FALSE, oauth |-> FALSE]
    /\ clients = [service |-> FALSE, oauth |-> FALSE]

\* the line callback for add_todo or list_todos, up to the first await of the
\* handler: of initializeDatabase when no database id is set, otherwise of
\* the request of the tool
NotionLine(line) ==
    LET step == handleRequest(tools, line)
    IN  /\ Len(lines) < MaxLines
        /\ step.does = "await"
        /\ lines' = Append(lines, line)
        /\ IF NoDatabase(databaseId)
           THEN /\ initRuns' = initRuns \cup {[owner |-> line.id, at |-> "search"]}
                /\ notionCalls' = issue(notionCalls, "search")
                /\ running' = running \cup
                       {[id |-> line.id, tool |-> step.tool, at |-> "init"]}
           ELSE /\ notionCalls' = issue(notionCalls, apiOf(step.tool))
                /\ running' = running \cup
                       {[id |-> line.id, tool |-> step.tool, at |-> "call"]}
                /\ UNCHANGED initRuns
        /\ UNCHANGED <<engineVars, tools, stdout, databaseId, assignments, env,
                       clients>>

\* initializeDatabase returned to the handler that awaited it, which goes on
\* to the request of its tool; the run of the constructor has nobody waiting
Continue(owner) ==
    IF owner = 0
    THEN UNCHANGED <<running, notionCalls>>
    ELSE LET call == CHOOSE c \in running : c.id = owner
         IN  /\ running' = (running \ {call}) \cup {[call EXCEPT !.at = "call"]}
             /\ notionCalls' = issue(notionCalls, apiOf(call.tool))

\* the search of a run of initializeDatabase settles: a database found is
\* used, with none found createDatabase is called, a rejection is logged
SearchSettles(run, found, how) ==
    /\ run \in initRuns
    /\ run.at = "search"
    /\ IF how = "rejected"
       THEN /\ initRuns' = initRuns \ {run}
            /\ Continue(run.owner)
            /\ UNCHANGED <<databaseId, assignments>>
       ELSE IF found
       THEN /\ databaseId' = ExistingDatabase
            /\ assignments' = assignments + 1
            /\ initRuns' = initRuns \ {run}
            /\ Continue(run.owner)
       ELSE /\ initRuns' = (initRuns \ {run}) \cup {[run EXCEPT !.at = "users.list"]}
            /\ notionCalls' = issue(notionCalls, "users.list")
            /\ UNCHANGED <<running, databaseId, assignments>>
    /\ UNCHANGED <<engineVars, tools, lines, stdout, env, clients>>

\* users.list of createDatabase settles: databases.create is called, or the
\* catch block returns a failure and initializeDatabase assigns its missing
\* database_id
UsersSettles(run, how) ==
    /\ run \in initRuns
    /\ run.at = "users.list"
    /\ IF how = "resolved"
       THEN /\ initRuns' = (initRuns \ {run}) \cup
                               {[run EXCEPT !.at = "databases.create"]}
            /\ notionCalls' = issue(notionCalls, "databases.create")
            /\ UNCHANGED <<running, databaseId, assignments>>
       ELSE /\ databaseId' = Undefined
            /\ assignments' = assignments + 1
            /\ initRuns' = initRuns \ {run}
            /\ Continue(run.owner)
    /\ UNCHANGED <<engineVars, tools, lines, stdout, env, clients>>

\* databases.create settles: initializeDatabase assigns the id of the new
\* database, or the missing database_id of the failure
CreateSettles(run, how) ==
    /\ run \in initRuns
    /\ run.at = "databases.create"
    /\ databaseId' = IF how = "resolved"
                     THEN CreatedDatabase(CopiesIn("databases.create", notionCalls))
                     ELSE Undefined
    /\ assignments' = assignments + 1
    /\ initRuns' = initRuns \ {run}
    /\ Continue(run.owner)
    /\ UNCHANGED <<engineVars, tools, lines, stdout, env, clients>>

\* the request of a tool settles: the handler returns its result, with
\* success false from its catch block, and the callback writes the response
NotionCallSettles(call, how) ==
    /\ call \in running
    /\ call.at = "call"
    /\ running' = running \ {call}
    /\ stdout' = Append(stdout, Result(call.id, [success |-> how = "resolved"]))
    /\ UNCHANGED <<engineVars, tools, lines, initRuns, databaseId, notionCalls,
                   assignments, env, clients>>

NotionReads == \E line \in NotionLines(Len(lines) + 1) : NotionLine(line)

SearchesSettle ==
    \E run \in initRuns, found \in BOOLEAN, how \in Settled :
        SearchSettles(run, found, how)

UsersSettle == \E run \in initRuns, how \in Settled : UsersSettles(run, how)

CreatesSettle == \E run \in initRuns, how \in Settled : CreateSettles(run, how)

NotionCallsSettle ==
    \E call \in running, how \in Settled : NotionCallSettles(call, how)

NotionNext ==
    \/ NotionReads
    \/ SearchesSettle
    \/ UsersSettle
    \/ CreatesSettle
    \/ NotionCallsSettle

NotionSpec == NotionInit /\ [][NotionNext]_vars

-----------------------------------------------------------------------------
(* GoogleMCPServer (src/mcp/google/server.js): the constructor starts         *)
(* initialize without awaiting it; the Gmail-reading and Tasks tools need     *)
(* the OAuth clients initialize sets, and never start it themselves.          *)

\* the tools the Google server registers in its constructor
GoogleTools ==
    {"create_event", "list_events", "update_event", "delete_event", "create_sheet",
     "append_sheet", "send_email", "set_reminder", "upload_to_drive",
     "list_drive_files", "download_from_drive", "create_drive_folder",
     "get_gmail_subjects", "read_gmail", "create_task", "list_tasks",
     "complete_task", "create_doc", "update_doc", "read_doc"}

\* the tools that return a failure when their OAuth client is not set
OAuthTools == {"get_gmail_subjects", "create_task", "list_tasks", "complete_task"}

TasksNotInitialized == "Tasks client not initialized"

GmailNotInitialized == "OAuth Gmail client not initialized"

\* the failure a tool returns when its client is not set
notInitialized(tool) ==
    [success |-> FALSE,
     error |-> IF tool = "get_gmail_subjects"
               THEN GmailNotInitialized
               ELSE TasksNotInitialized]

\* the result of a handler whose request to the API settled, or whose
\* client was null when it was used
outcomeOf(success) ==
    IF success THEN [success |-> TRUE]
    ELSE [success |-> FALSE, error |-> "error.message"]

\* the request lines of the OAuth tools and of a tool of the service account
GoogleLines(id) ==
    {[json |-> TRUE, id |-> id, method |-> <<"tools", tool>>] :
        tool \in OAuthTools \cup {"create_event"}}

\* initialize up to its first await: without a service-account key it
\* returns at once, otherwise it awaits this.auth.getClient()
initialize(environment, owner) ==
    IF environment.serviceAccountKey
    THEN {[owner |-> owner, at |-> "getClient"]}
    ELSE {}

\* the constructor has run, in a process with any of the credentials set
GoogleInit ==
    /\ NoEngine
    /\ tools = GoogleTools
    /\ lines = <<>>
    /\ running = {}
    /\ stdout = <<>>
    /\ env \in [serviceAccountKey : BOOLEAN, oauth : BOOLEAN]
    /\ initRuns = initialize(env, 0)
    /\ databaseId = Null
    /\ notionCalls = EmptyBag
    /\ assignments = 0
    /\ clients = [service |-> FALSE, oauth |-> FALSE]

\* the line callback for a tool of the Google server, up to the first await
\* of its handler or up to the response
GoogleLine(line) ==
    LET step == handleRequest(tools, line)
        call(at) == [id |-> line.id, tool |-> step.tool, at |-> at]
    IN  /\ Len(lines) < MaxLines
        /\ step.does = "await"
        /\ lines' = Append(lines, line)
        /\ IF step.tool \in OAuthTools
           THEN IF ~clients.oauth
                THEN /\ stdout' = Append(stdout,
                                         Result(line.id, notInitialized(step.tool)))
                     /\ UNCHANGED <<running, initRuns>>
                ELSE /\ running' = running \cup {call("call")}
                     /\ UNCHANGED <<stdout, initRuns>>
           ELSE IF clients.service
                THEN /\ running' = running \cup {call("call")}
                     /\ UNCHANGED <<stdout, initRuns>>
                ELSE IF initialize(env, line.id) # {}
                     THEN /\ initRuns' = initRuns \cup initialize(env, line.id)
                          /\ running' = running \cup {call("init")}
                          /\ UNCHANGED stdout
                     ELSE /\ stdout' = Append(stdout,
                                              Result(line.id, outcomeOf(FALSE)))
                          /\ UNCHANGED <<running, initRuns>>
        /\ UNCHANGED <<engineVars, tools, databaseId, notionCalls, assignments,
                       env, clients>>

\* getClient of a run of initialize settles: the clients are set, those of
\* OAuth when its credentials are configured, or the rejection is logged;
\* the handler that awaited the run goes on and uses its client
GetClientSettles(run, how) ==
    LET ready == clients.service \/ how = "resolved"
    IN  /\ run \in initRuns
        /\ initRuns' = initRuns \ {run}
        /\ clients' = IF how = "resolved"
                      THEN [service |-> TRUE, oauth |-> env.oauth]
                      ELSE clients
        /\ IF run.owner = 0
           THEN UNCHANGED <<running, stdout>>
           ELSE LET call == CHOOSE c \in running : c.id = run.owner
                IN  IF ready
                    THEN /\ running' = (running \ {call}) \cup
                                           {[call EXCEPT !.at = "call"]}
                         /\ UNCHANGED stdout
                    ELSE /\ running' = running \ {call}
                         /\ stdout' = Append(stdout,
                                             Result(call.id, outcomeOf(FALSE)))
        /\ UNCHANGED <<engineVars, tools, lines, databaseId, notionCalls,
                       assignments, env>>

\* the request of a tool to the Google API settles: the handler returns its
\* result, with success false from its catch block
GoogleCallSettles(call, how) ==
    /\ call \in running
    /\ call.at = "call"
    /\ running' = running \ {call}
    /\ stdout' = Append(stdout, Result(call.id, outcomeOf(how = "resolved")))
    /\ UNCHANGED <<engineVars, tools, lines, initRuns, databaseId, notionCalls,
                   assignments, env, clients>>

GoogleReads == \E line \in GoogleLines(Len(lines) + 1) : GoogleLine(line)

GetClientsSettle ==
    \E run \in initRuns, how \in Settled : GetClientSettles(run, how)

GoogleCallsSettle ==
    \E call \in running, how \in Settled : GoogleCallSettles(call, how)

GoogleNext ==
    \/ GoogleReads
    \/ GetClientsSettle
    \/ GoogleCallsSettle

GoogleSpec == GoogleInit /\ [][GoogleNext]_vars

-----------------------------------------------------------------------------
\* parseIntent on its own: a text and a clock reading are drawn, then the
\* function is applied to them
ClassifyInit ==
    /\ initialized = FALSE
    /\ conversationContext = [u \in {} |-> NoIntent]
    /\ handled = "none"
    /\ lastMessage \in Texts
    /\ clock \in Clock
    /\ lastIntent = NoIntent
    /\ result = NoResult
    /\ calls = <<>>
    /\ apiCalls = <<>>
    /\ awaiting = [u \in Users |-> NoIntent]
    /\ prompts = [u \in Users |-> 0]
    /\ inflight = EmptyBag
    /\ NoServer

Classify ==
    /\ lastIntent = NoIntent
    /\ lastIntent' = parseIntent(lastMessage, clock)
    /\ UNCHANGED <<serverVars, initialized, conversationContext, handled, lastMessage, clock,
                   result, calls, apiCalls, awaiting, prompts, inflight>>

ClassifyNext == Classify

ClassifySpec == ClassifyInit /\ [][ClassifyNext]_vars

TypeOK ==
    /\ initialized \in BOOLEAN
    /\ handled \in Users \cup {"none"}
    /\ DOMAIN conversationContext \subseteq Users
-----------------------------------------------------------------------------
(* Classification order and totality *)

\* the text the registry is matched against
Normalized(text) == trim(toLowerCase(text))

\* how many pattern groups of the k-th registry entry match the text msg
GroupsMatched(k, msg) ==
    Cardinality({g \in 1..Len(intentPatterns[k].keywords) :
                    test(intentPatterns[k].keywords[g], msg)})

\* the registry entries whose minMatches the last text reaches
Reached ==
    LET msg == Normalized(lastMessage)
    IN  {k \in 1..Len(intentPatterns) :
           GroupsMatched(k, msg) >= intentPatterns[k].minMatches}

\* the type an intent built for the k-th registry entry carries
TagOf(k) ==
    IF intentPatterns[k].name = "vague" THEN "clarification_needed"
    ELSE intentPatterns[k].name

CatchAll == Len(intentPatterns)

Classified == lastIntent # NoIntent

\* C1: the intent returned for a text is the first registry entry, in
\* declaration order, whose matching pattern groups reach its minMatches,
\* whether or not a later entry matches more groups; the catch-all entry is
\* returned as clarification_needed.
C1_FirstMatchWins ==
    Classified =>
        LET reached == Reached
        IN  \A k \in reached :
                (\A j \in reached : j >= k) => lastIntent.type = TagOf(k)

\* a text for which the returned entry matches fewer groups than a later one
C1_Witness ==
    /\ Classified
    /\ \E k \in Reached :
          /\ lastIntent.type = TagOf(k)
          /\ \E later \in (k + 1)..Len(intentPatterns) :
                GroupsMatched(later, Normalized(lastMessage))
                    > GroupsMatched(k, Normalized(lastMessage))

\* C6 as claimed: every text that reaches minMatches for none of the specific
\* intents is classified clarification_needed with the confidence of the
\* catch-all entry.
C6_AlwaysClarification ==
    (Classified /\ Reached \subseteq {CatchAll}) =>
        /\ lastIntent.type = "clarification_needed"
        /\ lastIntent.confidence = intentPatterns[CatchAll].confidence

\* C6 as amended: such a text is classified clarification_needed, with the
\* confidence of the catch-all entry, when it contains a filler word of the
\* catch-all pattern, and otherwise unknown with confidence 0; in both cases
\* needsConfirmation is true.
C6_ClarificationOrUnknown ==
    Classified =>
        LET reached == Reached
        IN  (reached \subseteq {CatchAll}) =>
                /\ lastIntent.needsConfirmation
                /\ IF CatchAll \in reached
                   THEN /\ lastIntent.type = "clarification_needed"
                        /\ lastIntent.confidence = intentPatterns[CatchAll].confidence
                   ELSE /\ lastIntent.type = "unknown"
                        /\ lastIntent.confidence = 0

\* a text with words but no keyword of any entry, classified unknown
C6_Witness ==
    /\ Classified
    /\ lastMessage # <<>>
    /\ Reached = {}
    /\ lastIntent.type = "unknown"

-----------------------------------------------------------------------------
(* The confirmation gate and the dialogue *)

Handled == handled # "none"

Range(s) == {s[i] : i \in DOMAIN s}

\* C2: no user ever has a pending intent when a message arrives, and handling
\* a message invokes a collaborator operation exactly when the classified
\* intent has needsConfirmation false and confidence at least the threshold
\* 0.6; otherwise nothing is invoked, no API request is issued and the reply
\* is a clarification prompt with a non-empty list of suggested answers.
C2_DispatchIffResolved ==
    Handled =>
        /\ handled \notin DOMAIN conversationContext
        /\ (calls # <<>>) <=>
               (~lastIntent.needsConfirmation /\ lastIntent.confidence >= 6)
        /\ (calls = <<>>) =>
               /\ apiCalls = <<>>
               /\ result.needsUserInput
               /\ result.options # <<>>
               /\ result.pendingIntent = lastIntent

\* a message was dispatched to a collaborator that answered
C2_Witness ==
    /\ Handled
    /\ Len(calls) = 1
    /\ apiCalls # <<>>
    /\ result.success
    /\ ~result.needsUserInput

\* a text that is a task title as it stands: nothing for the task stop words
\* to remove, long enough, and not the negative answer
IsTaskTitle(text) ==
    /\ Len(text) >= MinTaskTitle
    /\ extractContent(text, taskStopWords) = text
    /\ text # W.iie

\* C3 as claimed: when the last reply to a user asked for the title of a task
\* (a create-task intent whose title is missing), the next message of that
\* user is taken as the title: the task collaborator is invoked with it and
\* the user has nothing pending afterwards.
C3_AnswerFillsSlot ==
    [][\A u \in Users :
          (/\ awaiting[u].type = "taskCreate"
           /\ awaiting[u].params.title = <<>>
           /\ handled' = u
           /\ IsTaskTitle(lastMessage'))
          => /\ calls' = <<[op |-> "executeTaskCreate",
                            args |-> [title |-> lastMessage']]>>
             /\ awaiting'[u] = NoIntent]_vars

\* C4 as claimed: after a message of user u was answered with a clarification
\* prompt, the conversation context holds a pending intent for u that
\* contains the intent of the prompt.
C4_PromptIsPersisted ==
    (Handled /\ result.needsUserInput) =>
        /\ handled \in DOMAIN conversationContext
        /\ conversationContext[handled].intent = result.pendingIntent

\* C5: the calendar event-creation operation is never invoked with a time
\* whose specific flag is false.
C5_NoDefaultTimeEvent ==
    \A i \in 1..Len(calls) :
        calls[i].op = "executeCalendarCreate" => calls[i].args.time.specific

\* an event was created, from a text that names a time of day
C5_Witness ==
    /\ Len(calls) = 1
    /\ calls[1].op = "executeCalendarCreate"
    /\ calls[1].args.time.specific
    /\ apiCalls = <<"calendar.events.insert">>

\* the prompts for the intent offer the negative answer
OffersNo(pending) ==
    \E confirmation \in generateConfirmation(pending) :
        W.iie \in Range(confirmation.options)

\* C7 as claimed: when the last reply to a user was a prompt that offered the
\* negative answer, that answer from the same user leaves the user with
\* nothing pending, and nothing is dispatched.
C7_NoCancels ==
    [][\A u \in Users :
          (/\ awaiting[u] # NoIntent
           /\ OffersNo(awaiting[u])
           /\ handled' = u
           /\ lastMessage' = W.iie)
          => /\ awaiting'[u] = NoIntent
             /\ calls' = <<>>]_vars

\* C8 as claimed: a user gets the prompt for one pending intent at most twice
\* in a row; a third consecutive reply is the generic fallback message.
C8_BoundedPrompts ==
    \A u \in Users :
        (handled = u /\ prompts[u] >= 3) => result.message.text = FallbackText

-----------------------------------------------------------------------------
(* Concurrent calls, users, and failing collaborators *)

\* the suspended calls of the user
InflightOf(u) == {h \in BagToSet(inflight) : h.userId = u}

\* C11: the handling of one message of a user, the awaited collaborator call
\* included, runs to completion before the handling of the next message of
\* that user begins: no user ever has two calls in progress.
C11_PerUserSerialized ==
    \A u \in Users :
        \A h \in InflightOf(u) :
            /\ CopiesIn(h, inflight) = 1
            /\ InflightOf(u) = {h}

\* the context entry of the user: <<>> when there is none
EntryOf(context, u) ==
    IF u \in DOMAIN context THEN <<context[u]>> ELSE <<>>

PendingHandlings ==
    UNION { UNION { {Handling(u, text, now, SubSeq(o.requests, 1, k), "pending") :
                        k \in 1..Len(o.requests)} :
                    o \in executeIntent(TRUE, parsedMessages[text][now]) } :
            u \in Users, text \in AsyncTexts, now \in AsyncClock }

\* C13: every collaborator call is bounded by a timeout: a call suspended at
\* a request the collaborator never settles still returns eventually, with
\* success false.
C13_CallsTimeOut ==
    \A h \in PendingHandlings :
        BagIn(h, inflight) ~> ~BagIn(h, inflight)

\* C14: when a collaborator operation fails during dispatch, the handling
\* returns success false with the collaborator's error text in its message,
\* and issues no further request: the failed operation is not tried again.
C14_FailureSurfaced ==
    [][\A h \in BagToSet(inflight) :
           (h.settled = "rejected" /\ inflight' = inflight (-) SetToBag({h})) =>
               /\ handled' = h.userId
               /\ ~result'.success
               /\ result'.message.text = ApiError
               /\ result'.message.phrase \in responseVariations.error
               /\ apiCalls' = h.issued]_vars

\* a handling returned the failure of its second request
C14_Witness ==
    /\ Handled
    /\ ~result.success
    /\ result.message.text = ApiError
    /\ Len(apiCalls) = 2
    /\ inflight # EmptyBag

\* C15: for every text and every collaborator behaviour, handling a message
\* ends with the outcome of a dispatch or with a clarification prompt, both
\* composed replies: no error leaves the handler uncaught.
C15_HandlingTerminates ==
    /\ \A u \in Users, text \in DialogueTexts, now \in Clock :
           ENABLED ProcessMessage(u, text, now)
    /\ Handled =>
           \/ /\ result.needsUserInput
              /\ result.pendingIntent = lastIntent
              /\ Len(result.options) > 0
              /\ calls = <<>>
           \/ /\ ~result.needsUserInput
              /\ calls = handlerOf(lastIntent)
              /\ result.message.phrase \in
                     responseVariations[IF result.success THEN "success" ELSE "error"]

\* a handling whose collaborator threw ended with a composed error reply
C15_Witness ==
    /\ Handled
    /\ ~result.needsUserInput
    /\ ~result.success
    /\ result.message.text \in {NullClientError, NoTaskListError, ApiError}
    /\ result.message.phrase \in responseVariations.error

-----------------------------------------------------------------------------
(* Dispatch and slots *)

\* the tags of the closed enumeration, each with the collaborator operation
\* fixed for it and the requests that operation makes of its collaborator
Operations ==
    [ gmail |-> [op |-> "executeGmail",
                 requests |-> {"gmail.users.messages.list", "gmail.users.messages.get"},
                 main |-> "gmail.users.messages.list"],
      taskCreate |-> [op |-> "executeTaskCreate",
                      requests |-> {"tasks.tasklists.list", "tasks.tasks.insert"},
                      main |-> "tasks.tasks.insert"],
      taskList |-> [op |-> "executeTaskList",
                    requests |-> {"tasks.tasklists.list", "tasks.tasks.list"},
                    main |-> "tasks.tasks.list"],
      docCreate |-> [op |-> "executeDocCreate",
                     requests |-> {"docs.documents.create"},
                     main |-> "docs.documents.create"],
      sheetCreate |-> [op |-> "executeSheetCreate",
                       requests |-> {"sheets.spreadsheets.create"},
                       main |-> "sheets.spreadsheets.create"],
      calendarCreate |-> [op |-> "executeCalendarCreate",
                          requests |-> {"calendar.events.insert"},
                          main |-> "calendar.events.insert"],
      calendarList |-> [op |-> "executeCalendarList",
                        requests |-> {"calendar.events.list"},
                        main |-> "calendar.events.list"] ]

Tags == DOMAIN Operations

Dispatched == result # NoResult

\* C16: executeIntent selects its handler from the tag alone: each tag of the
\* enumeration delegates to the one collaborator operation fixed for it, and
\* an intent whose tag is outside the enumeration (unknown,
\* clarification_needed) yields success false without any collaborator call.
C16_TagSelectsHandler ==
    Dispatched =>
        IF lastIntent.type \in Tags
        THEN /\ Len(calls) = 1
             /\ calls[1].op = Operations[lastIntent.type].op
             /\ Range(apiCalls) \subseteq Operations[lastIntent.type].requests
             /\ initialized => apiCalls # <<>>
             /\ result.success => Operations[lastIntent.type].main \in Range(apiCalls)
        ELSE /\ calls = <<>>
             /\ apiCalls = <<>>
             /\ ~result.success
             /\ result.message.text = UnknownOperationText

\* the unknown intent was executed, with the clients ready
C16_Witness ==
    /\ Dispatched
    /\ initialized
    /\ lastIntent.type = "unknown"
    /\ ~result.success
    /\ calls = <<>>

\* the title slot of the intent is missing: empty, or shorter than the
\* minimum of its tag
TitleMissing(parsed) ==
    CASE parsed.type = "taskCreate" -> Len(parsed.params.title) < 3
      [] parsed.type = "docCreate" -> Len(parsed.params.title) < 2
      [] parsed.type = "sheetCreate" -> Len(parsed.params.title) < 2
      [] parsed.type = "calendarCreate" -> Len(parsed.params.title) < 1
      [] OTHER -> FALSE

\* the text has a relative day marker
HasDayMarker(text) == includes(text, W.ashita) \/ includes(text, W.raishuu)

\* the text has an explicit time of day, HH:MM or H ji
HasTimeOfDay(text) == timeMatchFrom(text, 1) # <<>>

\* C17: a classified intent has needsConfirmation true whenever its title
\* slot is missing or its time slot has specific false; a create-event text
\* with a relative day marker and no time of day has specific false and
\* needsConfirmation true.
C17_MissingSlotNeedsConfirmation ==
    Classified =>
        /\ TitleMissing(lastIntent) => lastIntent.needsConfirmation
        /\ lastIntent.type = "calendarCreate" =>
              /\ ~lastIntent.params.time.specific => lastIntent.needsConfirmation
              /\ (HasDayMarker(lastMessage) /\ ~HasTimeOfDay(lastMessage)) =>
                     /\ ~lastIntent.params.time.specific
                     /\ lastIntent.needsConfirmation

\* a create-event text with a title, a day marker and no time of day
C17_Witness ==
    /\ Classified
    /\ lastIntent.type = "calendarCreate"
    /\ HasDayMarker(lastMessage)
    /\ ~HasTimeOfDay(lastMessage)
    /\ lastIntent.params.title # <<>>
    /\ ~lastIntent.params.time.specific
    /\ lastIntent.needsConfirmation

\* the hour and minute written in the text, in minutes from midnight
WrittenTime(text) ==
    LET timeMatch == timeMatchFrom(text, 1)
    IN  parseInt(timeMatch[1]) * 60 + parseInt(timeMatch[2])

\* C18: the time extractor returns specific true exactly when the text has an
\* explicit time of day, with or without a relative day marker, and start
\* then carries the hour and minute written in the text.
C18_SpecificIffTimeOfDay ==
    (Handled /\ lastIntent.type = "calendarCreate") =>
        /\ lastIntent.params.time.specific <=> HasTimeOfDay(lastMessage)
        /\ lastIntent.params.time.specific =>
              lastIntent.params.time.start % 1440 = WrittenTime(lastMessage)

\* the count the claim gives for the text: the value of the first run of
\* digits, the default when the text has no digit
CountWritten(text) ==
    LET run == firstDigitRun(text, 1)
    IN  IF run = <<>> THEN 5 ELSE parseInt(run)

\* C19: every text classified as gmail has needsConfirmation false, and the
\* mail collaborator is called with the value of the first run of digits of
\* the text as count, and with 5 exactly when the text has no digit.
C19_MailCount ==
    (Handled /\ lastIntent.type = "gmail") =>
        /\ ~lastIntent.needsConfirmation
        /\ calls = <<[op |-> "executeGmail",
                      args |-> [count |-> CountWritten(lastMessage)]]>>

\* the options that are not literal titles
NotTitles == {W.hai, W.iie, W.taitoru_wo_henkou, W.sonota_tenyuuryoku, W.sonota}

\* the suggested literal titles among the options of the reply
SuggestedTitles(options) == Range(options) \ NotTitles

\* C20 as claimed: for every text classified as taskCreate whose title is
\* missing, needsConfirmation is true, the task collaborator is not invoked
\* and the reply is a question with at least 2 suggested literal titles.
C20_MissingTitleSuggestions ==
    (Handled /\ lastIntent.type = "taskCreate" /\ TitleMissing(lastIntent)) =>
        /\ lastIntent.needsConfirmation
        /\ calls = <<>>
        /\ result.needsUserInput
        /\ Cardinality(SuggestedTitles(result.options)) >= 2

\* C20 as amended: such a text has needsConfirmation true and the task
\* collaborator is not invoked; the reply asks for the task with at least 2
\* suggested literal titles when the title is empty, and asks to confirm the
\* too short title, offering yes, no and a change of title, when it is not.
C20_SuggestionsWhenEmpty ==
    (Handled /\ lastIntent.type = "taskCreate" /\ TitleMissing(lastIntent)) =>
        /\ lastIntent.needsConfirmation
        /\ calls = <<>>
        /\ result.needsUserInput
        /\ IF lastIntent.params.title = <<>>
           THEN /\ Cardinality(SuggestedTitles(result.options)) >= 2
                /\ result.message.title = NoTitle
           ELSE /\ result.options = <<W.hai, W.iie, W.taitoru_wo_henkou>>
                /\ result.message.title = lastIntent.params.title

\* a create-task text without a title was answered with suggested titles
C20_Witness ==
    /\ Handled
    /\ lastIntent.type = "taskCreate"
    /\ lastIntent.params.title = <<>>
    /\ result.needsUserInput
    /\ Cardinality(SuggestedTitles(result.options)) >= 2

-----------------------------------------------------------------------------
(* The clarification reply, classification and the extractors *)

\* the tags of the specific intents the registry declares
DeclaredTags == {intentPatterns[k].name : k \in 1..(Len(intentPatterns) - 1)}

\* the tags the suggested answers are classified as when a user sends them
OptionTags(options, now) ==
    {parseIntent(options[i], now).type : i \in DOMAIN options}

\* C21: for every text that matches only the catch-all filler group, the
\* result is clarification_needed and the suggested answers of the reply are
\* non-empty and contain, for each declared intent tag, at least one answer
\* corresponding to that tag.
C21_OptionsCoverTags ==
    (Handled /\ Reached = {CatchAll}) =>
        /\ lastIntent.type = "clarification_needed"
        /\ result.options # <<>>
        /\ DeclaredTags \subseteq OptionTags(result.options, clock)

\* C22: every intent classification produces has confidence 0 if and only
\* if its type is "unknown".
C22_ZeroConfidenceIffUnknown ==
    Classified => (lastIntent.confidence = 0 <=> lastIntent.type = "unknown")

\* a text no registry entry accepts was classified, with confidence 0
C22_Witness ==
    /\ Classified
    /\ lastIntent = UnknownIntent
    /\ lastIntent.confidence = 0

\* an intent was built from the drawn text
Built == lastIntent # NoIntent

\* C23: every time expression the time extractor returns has end after
\* start, and for a text with no recognized time marker (no relative day, no
\* time of day) it is the default window, which starts one hour from now and
\* has specific false.
C23_WindowAndDefault ==
    (Built /\ lastIntent.type = "calendarCreate") =>
        LET time == lastIntent.params.time
        IN  /\ time.end > time.start
            /\ (~HasDayMarker(lastMessage) /\ ~HasTimeOfDay(lastMessage)) =>
                   /\ time.start = clock + MinutesPerHour
                   /\ ~time.specific

\* the time of a text without any marker was extracted late in the evening:
\* the default window starts on the next day
C23_Witness ==
    /\ Built
    /\ lastIntent.type = "calendarCreate"
    /\ lastMessage # <<>>
    /\ ~HasDayMarker(lastMessage)
    /\ ~HasTimeOfDay(lastMessage)
    /\ lastIntent.params.time.start = clock + MinutesPerHour
    /\ lastIntent.params.time.start >= MinutesPerDay
    /\ lastIntent.params.time.end > lastIntent.params.time.start

\* C24: classification is a function of the text alone: the type, the
\* confidence and needsConfirmation of the intent classified for a message
\* are those of the text at any clock reading, whichever user sent it and
\* whatever messages were handled before.
C24_ClassificationIsPure ==
    Handled =>
        \A now \in Clock :
            LET again == parsedMessages[lastMessage][now]
            IN  /\ lastIntent.type = again.type
                /\ lastIntent.confidence = again.confidence
                /\ lastIntent.needsConfirmation = again.needsConfirmation

\* a user sent the same create-task text twice in a row while another user
\* has a prompt of another intent pending
C24_Witness ==
    /\ Handled
    /\ lastIntent.type = "taskCreate"
    /\ prompts[handled] = 2
    /\ \E other \in Users \ {handled} :
          /\ awaiting[other] # NoIntent
          /\ awaiting[other].type # lastIntent.type

\* the stop-word list buildIntent uses for the intent type
stopWordsFor(type) ==
    CASE type = "taskCreate" -> taskStopWords
      [] type = "docCreate" -> docStopWords
      [] type = "sheetCreate" -> sheetStopWords
      [] type = "calendarCreate" -> calendarStopWords
      [] OTHER -> <<>>

\* the word occurs somewhere in the text, in any case
Occurs(text, word) == \E i \in 1..Len(text) : OccursAt(text, word, i)

\* the text neither starts nor ends with white space and has no two white
\* space characters in a row
SingleSpaced(text) ==
    /\ text # <<>> => (text[1] \notin Whitespace /\ text[Len(text)] \notin Whitespace)
    /\ \A i \in 1..(Len(text) - 1) :
          ~(text[i] \in Whitespace /\ text[i + 1] \in Whitespace)

HasTitle == lastIntent.type \in {"taskCreate", "docCreate", "sheetCreate", "calendarCreate"}

\* C25: for every message and every intent's stop-word list, the content the
\* extractor returns contains no stop word of the list in any case, has no
\* leading or trailing white space and no run of two or more white space
\* characters, and the extractor applied to it returns it unchanged.
C25_ContentIsClean ==
    (Built /\ HasTitle) =>
        LET title == lastIntent.params.title
            stopWords == stopWordsFor(lastIntent.type)
        IN  /\ \A k \in DOMAIN stopWords : ~Occurs(title, stopWords[k])
            /\ SingleSpaced(title)
            /\ extractContent(title, stopWords) = title

\* a title was extracted from a text that has a stop word of the list in
\* another case than the list's, and white space at an end or in a run
C25_Witness ==
    /\ Built
    /\ lastIntent.type = "taskCreate"
    /\ includes(lastMessage, <<"T", "o", "D", "O">>)
    /\ ~SingleSpaced(lastMessage)
    /\ lastIntent.params.title # <<>>
    /\ lastIntent.params.title # lastMessage

-----------------------------------------------------------------------------
(* The MCP servers *)

\* the responses written so far that carry the id
Answers(id) == {i \in DOMAIN stdout : stdout[i].id = id}

\* the response carries a result or an error, and not both
WellFormed(response) ==
    ("result" \in DOMAIN response) # ("error" \in DOMAIN response)

\* C26: the server answers every request line that is valid JSON with exactly
\* one response line, which carries the id of the request and either a result
\* or an error but not both, for tools/_list_tools and for tools/<name>, in
\* whatever order the pending handlers complete; until its handler completes
\* a request has no response.
C26_OneResponsePerRequest ==
    \A k \in DOMAIN lines :
        lines[k].json =>
            IF \E call \in running : call.id = lines[k].id
            THEN Answers(lines[k].id) = {}
            ELSE /\ Cardinality(Answers(lines[k].id)) = 1
                 /\ \A i \in Answers(lines[k].id) : WellFormed(stdout[i])

\* the request names a registered tool
NamesTool(request) ==
    /\ "method" \in DOMAIN request
    /\ request.method # ListTools
    /\ startsWithTools(request.method)
    /\ request.method[2] \in tools

\* the request asks for the list of tools
AsksList(request) == "method" \in DOMAIN request /\ request.method = ListTools

\* C27: every failure while handling a request is reported as an error
\* response that carries the id of the request: with code -32601 when the
\* method is not tools/<registered tool>, and then no handler is invoked, and
\* with code -32603 when the handler of the tool throws; the registry is
\* unchanged and later requests are still served.
C27_FailuresReported ==
    /\ tools = NotionTools
    /\ \A call \in running : call.tool \in tools
    /\ Len(lines) < MaxLines => ENABLED Reads
    /\ \A k \in DOMAIN lines :
          (lines[k].json /\ ~\E call \in running : call.id = lines[k].id) =>
              LET answers == {stdout[i] : i \in Answers(lines[k].id)}
              IN  /\ answers # {}
                  /\ NamesTool(lines[k]) =>
                        \A a \in answers :
                            "error" \in DOMAIN a => a.error.code = InternalError
                  /\ (~NamesTool(lines[k]) /\ ~AsksList(lines[k])) =>
                        \A a \in answers :
                            /\ "error" \in DOMAIN a
                            /\ a.error.code = MethodNotFound

\* C28: for any interleaving of the startup initialization of the Notion
\* server with add_todo and list_todos requests, the server issues at most
\* one database-creation call and assigns databaseId at most once.
C28_DatabaseCreatedOnce ==
    /\ CopiesIn("databases.create", notionCalls) <= 1
    /\ assignments <= 1

\* the response tells that the client of an OAuth tool is not initialized
ToldNotInitialized(response) ==
    /\ "result" \in DOMAIN response
    /\ "error" \in DOMAIN response.result
    /\ response.result.error \in {TasksNotInitialized, GmailNotInitialized}

\* C29: in the Google server with OAuth credentials configured, a
\* create_task, list_tasks, complete_task or get_gmail_subjects request is
\* never answered with a "client not initialized" failure, however soon
\* after the start it arrives and whether or not the service-account key is
\* present.
C29_OAuthToolsReady ==
    env.oauth => \A i \in DOMAIN stdout : ~ToldNotInitialized(stdout[i])

-----------------------------------------------------------------------------
(* The conversation context *)

\* the operation processMessage invokes for the intent, none when it asks
dispatchOf(parsed) == IF needsUserInput(parsed) THEN <<>> ELSE handlerOf(parsed)

\* C30: processMessage never reads or writes conversationContext: after any
\* sequence of calls the map is still empty, and the classification of a
\* message and the decision to dispatch it are those of its text and clock
\* reading alone, whatever messages of any user were handled before.
C30_ContextUntouched ==
    /\ DOMAIN conversationContext = {}
    /\ Handled =>
          /\ lastIntent = parsedMessages[lastMessage][clock]
          /\ calls = dispatchOf(parsedMessages[lastMessage][clock])

\* a message was dispatched after another user was asked a question that is
\* still open, and the map is empty
C30_Witness ==
    /\ Handled
    /\ calls # <<>>
    /\ \E other \in Users \ {handled} : awaiting[other].type = "taskCreate"
    /\ DOMAIN conversationContext = {}

====
